---- MODULE Spec2Model ----
(***************************************************************************)
(* wp-check: scan a directory tree for WordPress installations and compare *)
(* the core and plugin versions found on disk with the versions published  *)
(* on wordpress.org (src/wp-check.py).                                     *)
(*                                                                         *)
(* Modelling conventions                                                   *)
(*  - an Optional value is a sequence of length 0 (None) or 1 (the value); *)
(*  - a version string is the sequence of its dotted numeric components,   *)
(*    "1.0" is <<1, 0>>; the string "trunk" (not a number) is <<-1>>;       *)
(*  - a path is the sequence of its components;                            *)
(*  - a release date is kept as its age in hours at datetime.now().        *)
(***************************************************************************)
EXTENDS Integers, Sequences, FiniteSets, TLC

VARIABLES
    fs,            \* the directory tree on disk (read only)
    pc,            \* position in check_wordpress, or the exception that ended it
    stack,         \* os.walk: directories still to be yielded, next first
    visited,       \* directories os.walk has yielded so far
    wp_dir,        \* the installation being reported
    wp_version,    \* its extracted core version (Optional)
    todo,          \* check_wordpress_plugins: entries of the listing left
    wp_cache,      \* WordPressOnline.wp_cache: version string -> release date
    plugin_cache,  \* WordPressOnline.plugin_cache: slug -> [version, closed]
    stdout,        \* printed lines
    gets,          \* HTTP GETs issued: [releases |-> n, plugin |-> [slug -> n]]
    checked,       \* the plugin directories check_plugin was called on
    calls,         \* number of check_plugin calls so far
    last           \* the most recent check_plugin call (or the header scan)

vars == <<fs, pc, stack, visited, wp_dir, wp_version, todo, wp_cache,
          plugin_cache, stdout, gets, checked, calls, last>>

----------------------------------------------------------------------------
(* Bounds *)

MaxNest == 1           \* installations are nested in each other to this depth
MaxTables == 1         \* tables of a releases page
MaxCalls == 3          \* check_plugin calls on one WordPressOnline instance
MaxFiles == 2          \* entries of a plugin directory in the header scan

(* Program constant *)
OutdatedDays == 180

----------------------------------------------------------------------------
(* Optional values *)

None == <<>>
Some(x) == <<x>>
IsNone(o) == o = <<>>
Val(o) == o[1]

----------------------------------------------------------------------------
(* Versions: packaging.version *)

Legacy == <<-1>>

RECURSIVE StripZeros(_)
StripZeros(s) ==
    IF s # <<>> /\ s[Len(s)] = 0 THEN StripZeros(SubSeq(s, 1, Len(s) - 1)) ELSE s

\* version.parse: the comparison key of a version string. A Version compares by
\* its release with the trailing zeros dropped; a LegacyVersion keeps its mark.
ParseVersion(str) == IF str = Legacy THEN Legacy ELSE StripZeros(str)

RECURSIVE SeqLess(_, _)
SeqLess(a, b) ==
    IF a = <<>> THEN b # <<>>
    ELSE IF b = <<>> THEN FALSE
    ELSE IF a[1] # b[1] THEN a[1] < b[1]
    ELSE SeqLess(Tail(a), Tail(b))

\* a < b on parsed versions: a LegacyVersion sorts below every Version
VersionLess(a, b) ==
    IF a = Legacy THEN b # Legacy
    ELSE IF b = Legacy THEN FALSE
    ELSE SeqLess(a, b)

----------------------------------------------------------------------------
(* The releases page: the sequence of its <table> elements. A table is its   *)
(* first <tr> (None when it has no row), a row the sequence of its <td>      *)
(* cells, a cell its text together with what dateutil makes of that text     *)
(* (None when the parser raises).                                            *)

EmptyCache == <<>>

\* lines 56-61: the loop over the tables, entered with the cache so far.
\* raised names the exception that ends it: tr is None (line 58), tds[0] or
\* tds[1] is out of range (59-60), the date does not parse (60); the entries
\* stored before stay in the cache.
RECURSIVE ParseReleases(_, _)
ParseReleases(cache, tables) ==
    IF tables = <<>> THEN [cache |-> cache, raised |-> ""]
    ELSE LET tr == Head(tables) IN
         IF IsNone(tr) THEN [cache |-> cache, raised |-> "AttributeError"]
         ELSE LET tds == Val(tr) IN
              IF Len(tds) < 2 THEN [cache |-> cache, raised |-> "IndexError"]
              ELSE IF IsNone(tds[2].date)
              THEN [cache |-> cache, raised |-> "ParserError"]
              ELSE ParseReleases((tds[1].text :> Val(tds[2].date)) @@ cache,
                                 Tail(tables))

\* faulty variant of NeedsFetch: the cache is never consulted
NeedsFetchAlways(cache) == TRUE

\* line 53: "if not self.wp_cache"
NeedsFetch(cache) == DOMAIN cache = {}

\* lines 46-62; page is what the GET returns if one is issued
get_wp_branch_last_version_release_date(cache, version, page) ==
    LET fetch == NeedsFetch(cache)
        parsed == IF fetch THEN ParseReleases(cache, page)
                  ELSE [cache |-> cache, raised |-> ""]
    IN  [cache |-> parsed.cache,
         fetched |-> fetch,
         raised |-> parsed.raised,
         date |-> IF parsed.raised = "" /\ version \in DOMAIN parsed.cache
                  THEN Some(parsed.cache[version]) ELSE None]

\* timedelta.days of (datetime.now() - release_date), the age being in hours
Days(age) == age \div 24

----------------------------------------------------------------------------
(* A plugin page: [ok, closed, meta]: req.ok, whether the body holds the     *)
(* closed-plugin notice, and the 'Version:' matches inside the entry-meta    *)
(* region (None when the page has no such region).                           *)

NoResult == [version |-> None, closed |-> None]

\* lines 75-84: what a fetched page yields
ParsePluginPage(page) ==
    IF page.ok /\ ~IsNone(page.meta) /\ Val(page.meta) # <<>>
    THEN [version |-> Some(ParseVersion(Val(page.meta)[1])),
          closed |-> Some(page.closed)]
    ELSE NoResult

\* faulty variant of get_plugin_last_version: an unknown result is cached too
get_plugin_last_version_caching_unknown(cache, slug, page) ==
    IF slug \in DOMAIN cache
    THEN [cache |-> cache, fetched |-> FALSE, result |-> cache[slug]]
    ELSE LET r == ParsePluginPage(page) IN
         [cache |-> (slug :> r) @@ cache, fetched |-> TRUE, result |-> r]

\* lines 64-85; page is what the GET returns if one is issued
get_plugin_last_version(cache, slug, page) ==
    IF slug \in DOMAIN cache
    THEN [cache |-> cache, fetched |-> FALSE, result |-> cache[slug]]
    ELSE LET r == ParsePluginPage(page) IN
         [cache |-> IF IsNone(r.version) THEN cache ELSE (slug :> r) @@ cache,
          fetched |-> TRUE,
          result |-> r]

----------------------------------------------------------------------------
(* A plugin directory entry: [php, names, versions]: whether it is a regular *)
(* file named *.php, and the matches of the two header patterns in it.       *)

NoHeader == [name |-> None, version |-> None]

\* faulty variant of ScanStep: the first file with a header wins
ScanStepFirstWins(acc, f) ==
    IF ~f.php THEN acc
    ELSE IF f.names = <<>> THEN acc
    ELSE IF ~IsNone(acc.version) THEN acc
    ELSE IF f.versions = <<>> THEN [acc EXCEPT !.name = Some(f.names[1])]
    ELSE [name |-> Some(f.names[1]), version |-> Some(f.versions[1])]

\* lines 106-117: one iteration of the loop over os.listdir(plugin_dir)
ScanStep(acc, f) ==
    IF ~f.php THEN acc
    ELSE IF f.names = <<>> THEN acc
    ELSE IF f.versions = <<>> THEN [acc EXCEPT !.name = Some(f.names[1])]
    ELSE [name |-> Some(f.names[1]), version |-> Some(f.versions[1])]

\* lines 102-117
RECURSIVE ScanFrom(_, _)
ScanFrom(acc, files) ==
    IF files = <<>> THEN acc ELSE ScanFrom(ScanStep(acc, Head(files)), Tail(files))

ScanHeaders(files) == ScanFrom(NoHeader, files)

Line(dir, kind, slug, from, to) ==
    [dir |-> dir, kind |-> kind, slug |-> slug, from |-> from, to |-> to]

\* faulty variant of PluginLines: the update is looked at before the closure
PluginLinesUpdateFirst(dir, slug, plugin_version, r) ==
    IF ~IsNone(r.version) /\ VersionLess(plugin_version, Val(r.version))
    THEN <<Line(dir, "update", slug, plugin_version, Val(r.version))>>
    ELSE IF r.closed = Some(TRUE)
    THEN <<Line(dir, "closed", slug, <<>>, <<>>)>>
    ELSE <<>>

\* lines 122-127: the lines printed for a plugin with a header
PluginLines(dir, slug, plugin_version, r) ==
    IF r.closed = Some(TRUE)
    THEN <<Line(dir, "closed", slug, <<>>, <<>>)>>
    ELSE IF ~IsNone(r.version) /\ VersionLess(plugin_version, Val(r.version))
    THEN <<Line(dir, "update", slug, plugin_version, Val(r.version))>>
    ELSE <<>>

\* lines 97-127, for the plugin directory's listing and the page a GET returns
check_plugin(cache, dir, slug, files, page) ==
    LET h == ScanHeaders(files) IN
    IF IsNone(h.name) \/ IsNone(h.version)
    THEN [cache |-> cache, header |-> h, looked |-> FALSE, fetched |-> FALSE,
          result |-> NoResult, lines |-> <<>>]
    ELSE LET g == get_plugin_last_version(cache, slug, page) IN
         [cache |-> g.cache, header |-> h, looked |-> TRUE, fetched |-> g.fetched,
          result |-> g.result,
          lines |-> PluginLines(dir, slug, ParseVersion(Val(h.version)), g.result)]

----------------------------------------------------------------------------
(* The directory tree. Level i is the directory root/sub/.../sub (i times    *)
(* "sub"); fs.rev says whether listings come in reverse name order, and      *)
(* fs.at[i] what lies in level i:                                            *)
(*   content     whether it has a wp-content directory                       *)
(*   includes    whether it has a wp-includes directory                      *)
(*   versionphp  wp-includes/version.php: None when there is no such file,   *)
(*               else the matches of the $wp_version pattern in it           *)
(*   plugins     wp-content/plugins: None when there is no such directory,   *)
(*               else its listing, entries [name, isdir, files]              *)

Levels == 0..MaxNest

RECURSIVE Base(_)
Base(i) == IF i = 0 THEN <<"root">> ELSE Append(Base(i - 1), "sub")

Front(p) == SubSeq(p, 1, Len(p) - 1)
Last(p) == p[Len(p)]
IsBase(p) == Len(p) - 1 \in Levels /\ p = Base(Len(p) - 1)
Level(p) == Len(p) - 1

NameOrder == <<".hid", "akismet", "index.php", "plugins", "sub", "version.php",
               "wp-content", "wp-includes">>
Rank(name) == CHOOSE k \in DOMAIN NameOrder : NameOrder[k] = name

\* os.path.join
Join(p, name) == Append(p, name)

PluginsDir(d) == Join(Join(d, "wp-content"), "plugins")

\* the listing of wp-content/plugins of installation d
Listing(d) == IF IsNone(fs.at[Level(d)].plugins) THEN <<>> ELSE Val(fs.at[Level(d)].plugins)

\* the names directly inside directory p
Entries(p) ==
    IF IsBase(p) THEN
        {n \in {"wp-content"} : fs.at[Level(p)].content}
        \cup {n \in {"wp-includes"} : fs.at[Level(p)].includes}
        \cup {n \in {"sub"} : Level(p) < MaxNest}
    ELSE IF Len(p) >= 2 /\ IsBase(Front(p)) THEN
        LET l == fs.at[Level(Front(p))] IN
        IF Last(p) = "wp-content" /\ l.content
        THEN {n \in {"plugins"} : ~IsNone(l.plugins)}
        ELSE IF Last(p) = "wp-includes" /\ l.includes
        THEN {n \in {"version.php"} : ~IsNone(l.versionphp)}
        ELSE {}
    ELSE IF Len(p) >= 3 /\ IsBase(Front(Front(p))) /\ p = PluginsDir(Front(Front(p)))
    THEN {Listing(Front(Front(p)))[k].name : k \in DOMAIN Listing(Front(Front(p)))}
    ELSE {}

\* os.path.exists
Exists(p) == Len(p) = 1 \/ Last(p) \in Entries(Front(p))

\* os.path.isdir
IsDir(p) ==
    /\ Exists(p)
    /\ Last(p) # "version.php"
    /\ (Len(p) >= 4 /\ Front(p) = PluginsDir(Front(Front(Front(p)))) =>
            \E k \in DOMAIN Listing(Front(Front(Front(p)))) :
                /\ Listing(Front(Front(Front(p))))[k].name = Last(p)
                /\ Listing(Front(Front(Front(p))))[k].isdir)

\* the subdirectories of p, as os.walk finds them
SubDirs(p) == {Join(p, n) : n \in {m \in Entries(p) : IsDir(Join(p, m))}}

\* every directory of the tree
RECURSIVE Below(_)
Below(p) == {p} \cup UNION {Below(q) : q \in SubDirs(p)}

AllDirs == Below(Base(0))

\* faulty variant of is_wordpress: one of the two directories is enough
is_wordpress_either(directory) ==
    Exists(Join(directory, "wp-content")) \/ Exists(Join(directory, "wp-includes"))

\* lines 88-94
is_wordpress(directory) ==
    Exists(Join(directory, "wp-content")) /\ Exists(Join(directory, "wp-includes"))

\* lines 146-157
get_wp_version(dir) ==
    LET version_php == Join(Join(dir, "wp-includes"), "version.php") IN
    IF ~Exists(version_php) THEN None
    ELSE LET versions == Val(fs.at[Level(dir)].versionphp) IN
         IF versions = <<>> THEN None ELSE Some(versions[1])

\* the directories S by name; a listing comes in that order or in the reverse
RECURSIVE ByName(_)
ByName(S) ==
    IF S = {} THEN <<>>
    ELSE LET first == CHOOSE x \in S : \A y \in S : Rank(Last(x)) <= Rank(Last(y))
         IN  <<first>> \o ByName(S \ {first})

Reverse(q) == [k \in 1..Len(q) |-> q[Len(q) + 1 - k]]

Listed(S) == IF fs.rev THEN Reverse(ByName(S)) ELSE ByName(S)

----------------------------------------------------------------------------
(* Inputs *)

Slugs == {"akismet", ".hid", "index.php"}

HeaderFile(v) == [php |-> TRUE, names |-> <<"Akismet">>, versions |-> <<v>>]

IndexPhp == [name |-> "index.php", isdir |-> FALSE, files |-> <<>>]
HiddenDir == [name |-> ".hid", isdir |-> TRUE, files |-> <<>>]
Akismet == [name |-> "akismet", isdir |-> TRUE, files |-> <<HeaderFile(<<1>>)>>]

PluginListings == {None, Some(<<IndexPhp, HiddenDir, Akismet>>)}

VersionPhps == {None, Some(<<>>), Some(<< <<1, 0>> >>)}

Layouts ==
    {l \in [content : BOOLEAN, includes : BOOLEAN,
            versionphp : VersionPhps, plugins : PluginListings] :
        /\ (~l.includes => IsNone(l.versionphp))
        /\ (~l.content => IsNone(l.plugins))}

\* release dates, as ages in hours: 180 days and a half, 181 days
Ages == {OutdatedDays * 24 + 12, (OutdatedDays + 1) * 24}
CoreKeys == {<<1>>, <<1, 0>>}

VersionCell(v) == [text |-> v, date |-> None]
DateCell(d) == [text |-> <<>>, date |-> d]

Rows ==
    {<<>>} \cup {<<VersionCell(v)>> : v \in CoreKeys}
    \cup {<<VersionCell(v), DateCell(d)>> :
            v \in CoreKeys, d \in {None} \cup {Some(a) : a \in Ages}}

Tables == {None} \cup {Some(r) : r \in Rows}

ReleasePages == UNION {[1..n -> Tables] : n \in 0..MaxTables}

PluginPages ==
    [ok : BOOLEAN, closed : BOOLEAN,
     meta : {None, Some(<<>>), Some(<< <<2>>, <<1>> >>)}]

NoCall == [slug |-> "", header |-> NoHeader, looked |-> FALSE, page |-> None,
           result |-> NoResult, lines |-> <<>>]

\* what a check_plugin call leaves in "last"
CallRecord(slug, c, page) ==
    [slug |-> slug, header |-> c.header, looked |-> c.looked,
     page |-> IF c.fetched THEN Some(page) ELSE None,
     result |-> c.result, lines |-> c.lines]

NoGets == [releases |-> 0, plugin |-> [s \in Slugs |-> 0]]

----------------------------------------------------------------------------
(* check_wordpress *)

Init ==
    /\ fs \in [rev : BOOLEAN, at : [Levels -> Layouts]]
    /\ pc = "walk"
    /\ stack = <<Base(0)>>
    /\ visited = {}
    /\ wp_dir = <<>>
    /\ wp_version = None
    /\ todo = <<>>
    /\ wp_cache = EmptyCache
    /\ plugin_cache = EmptyCache
    /\ stdout = <<>>
    /\ gets = NoGets
    /\ checked = {}
    /\ calls = 0
    /\ last = NoCall

\* lines 167-168
Header(d) == <<Line(d, "sep", "", <<>>, <<>>), Line(d, "header", "", <<>>, <<>>)>>

\* os.walk, top down: the directory is yielded, its subdirectories come next
Yield(d) ==
    /\ pc = "walk"
    /\ stack' = Listed(SubDirs(d)) \o Tail(stack)
    /\ visited' = visited \cup {d}

\* line 166, false
VisitOther ==
    \E d \in {stack[k] : k \in {1} \cap DOMAIN stack} :
        /\ Yield(d)
        /\ ~is_wordpress(d)
        /\ UNCHANGED <<fs, pc, wp_dir, wp_version, todo, wp_cache, plugin_cache,
                       stdout, gets, checked, calls, last>>

\* lines 166-172
VisitNoVersion ==
    \E d \in {stack[k] : k \in {1} \cap DOMAIN stack} :
        /\ Yield(d)
        /\ is_wordpress(d)
        /\ IsNone(get_wp_version(d))
        /\ wp_dir' = d
        /\ wp_version' = None
        /\ stdout' = stdout \o Header(d) \o <<Line(d, "skipping", "", <<>>, <<>>)>>
        /\ UNCHANGED <<fs, pc, todo, wp_cache, plugin_cache, gets, checked, calls, last>>

\* lines 166-173
VisitVersion ==
    \E d \in {stack[k] : k \in {1} \cap DOMAIN stack} :
        /\ Yield(d)
        /\ is_wordpress(d)
        /\ ~IsNone(get_wp_version(d))
        /\ wp_dir' = d
        /\ wp_version' = get_wp_version(d)
        /\ stdout' = stdout \o Header(d)
                        \o <<Line(d, "version", "", Val(get_wp_version(d)), <<>>)>>
        /\ pc' = "core"
        /\ UNCHANGED <<fs, todo, wp_cache, plugin_cache, gets, checked, calls, last>>

\* faulty variant of CoreLines: the 180th day counts as outdated
CoreLinesFrom180(d, release_date) ==
    IF IsNone(release_date) THEN <<Line(d, "outofdate", "", <<>>, <<>>)>>
    ELSE IF Days(Val(release_date)) >= OutdatedDays
    THEN <<Line(d, "outdated", "", <<>>, <<>>)>>
    ELSE <<>>

\* lines 175-178
CoreLines(d, release_date) ==
    IF IsNone(release_date) THEN <<Line(d, "outofdate", "", <<>>, <<>>)>>
    ELSE IF Days(Val(release_date)) > OutdatedDays
    THEN <<Line(d, "outdated", "", <<>>, <<>>)>>
    ELSE <<>>

\* lines 174-178, the oracle answering from its cache
CoreCached ==
    /\ pc = "core"
    /\ ~NeedsFetch(wp_cache)
    /\ LET r == get_wp_branch_last_version_release_date(wp_cache, Val(wp_version), <<>>)
       IN  /\ wp_cache' = r.cache
           /\ stdout' = stdout \o CoreLines(wp_dir, r.date)
    /\ pc' = "plugins"
    /\ UNCHANGED <<fs, stack, visited, wp_dir, wp_version, todo, plugin_cache,
                   gets, checked, calls, last>>

\* lines 174-178, the oracle fetching the releases page
CoreFetch ==
    /\ pc = "core"
    /\ NeedsFetch(wp_cache)
    /\ \E page \in ReleasePages :
        LET r == get_wp_branch_last_version_release_date(wp_cache, Val(wp_version), page)
        IN  /\ r.raised = ""
            /\ wp_cache' = r.cache
            /\ stdout' = stdout \o CoreLines(wp_dir, r.date)
    /\ gets' = [gets EXCEPT !.releases = @ + 1]
    /\ pc' = "plugins"
    /\ UNCHANGED <<fs, stack, visited, wp_dir, wp_version, todo, plugin_cache,
                   checked, calls, last>>

\* line 174: the parse of the fetched page raises, nothing catches it
CoreFetchRaises ==
    /\ pc = "core"
    /\ NeedsFetch(wp_cache)
    /\ \E page \in ReleasePages :
        LET r == get_wp_branch_last_version_release_date(wp_cache, Val(wp_version), page)
        IN  /\ r.raised # ""
            /\ wp_cache' = r.cache
            /\ pc' = r.raised
    /\ gets' = [gets EXCEPT !.releases = @ + 1]
    /\ UNCHANGED <<fs, stack, visited, wp_dir, wp_version, todo, plugin_cache,
                   stdout, checked, calls, last>>

\* faulty variant of HasPluginsDir: wp-content is looked for instead
HasPluginsDirContent(d) == Exists(Join(d, "wp-content"))

\* line 136
HasPluginsDir(d) == Exists(PluginsDir(d))

\* lines 135-137
PluginsMissing ==
    /\ pc = "plugins"
    /\ ~HasPluginsDir(wp_dir)
    /\ pc' = "walk"
    /\ UNCHANGED <<fs, stack, visited, wp_dir, wp_version, todo, wp_cache,
                   plugin_cache, stdout, gets, checked, calls, last>>

\* lines 135-139
PluginsList ==
    /\ pc = "plugins"
    /\ HasPluginsDir(wp_dir)
    /\ stdout' = Append(stdout, Line(wp_dir, "plugins", "", <<>>, <<>>))
    /\ todo' = Listing(wp_dir)
    /\ pc' = "plugin"
    /\ UNCHANGED <<fs, stack, visited, wp_dir, wp_version, wp_cache, plugin_cache,
                   gets, checked, calls, last>>

\* faulty variant of IsPluginDir: every entry of the listing passes
IsPluginDirAny(plugin_dir) == Exists(plugin_dir)

\* line 141
IsPluginDir(plugin_dir) == IsDir(plugin_dir)

\* lines 139-142
PluginSkip ==
    /\ pc = "plugin"
    /\ todo # <<>>
    /\ ~IsPluginDir(Join(PluginsDir(wp_dir), Head(todo).name))
    /\ todo' = Tail(todo)
    /\ UNCHANGED <<fs, pc, stack, visited, wp_dir, wp_version, wp_cache,
                   plugin_cache, stdout, gets, checked, calls, last>>

\* the state a check_plugin call leaves
Checked(slug, c) ==
    /\ plugin_cache' = c.cache
    /\ stdout' = stdout \o c.lines
    /\ gets' = IF c.fetched THEN [gets EXCEPT !.plugin[slug] = @ + 1] ELSE gets

\* lines 139-143
PluginCheck ==
    /\ pc = "plugin"
    /\ todo # <<>>
    /\ LET plugin_slug == Head(todo).name
           plugin_dir == Join(PluginsDir(wp_dir), plugin_slug)
       IN  /\ IsPluginDir(plugin_dir)
           /\ \E page \in PluginPages :
                Checked(plugin_slug,
                        check_plugin(plugin_cache, wp_dir, plugin_slug,
                                     Head(todo).files, page))
           /\ checked' = checked \cup {plugin_dir}
    /\ todo' = Tail(todo)
    /\ UNCHANGED <<fs, pc, stack, visited, wp_dir, wp_version, wp_cache, calls, last>>

\* line 139: the listing is exhausted, back to the walk
PluginsDone ==
    /\ pc = "plugin"
    /\ todo = <<>>
    /\ pc' = "walk"
    /\ UNCHANGED <<fs, stack, visited, wp_dir, wp_version, todo, wp_cache,
                   plugin_cache, stdout, gets, checked, calls, last>>

\* line 165: os.walk is exhausted
WalkDone ==
    /\ pc = "walk"
    /\ stack = <<>>
    /\ pc' = "done"
    /\ UNCHANGED <<fs, stack, visited, wp_dir, wp_version, todo, wp_cache,
                   plugin_cache, stdout, gets, checked, calls, last>>

Next ==
    \/ VisitOther
    \/ VisitNoVersion
    \/ VisitVersion
    \/ CoreCached
    \/ CoreFetch
    \/ CoreFetchRaises
    \/ PluginsMissing
    \/ PluginsList
    \/ PluginSkip
    \/ PluginCheck
    \/ PluginsDone
    \/ WalkDone

Spec == Init /\ [][Next]_vars

----------------------------------------------------------------------------
(* check_plugin, called up to MaxCalls times on one WordPressOnline instance *)
(* for plugin directories and plugin pages drawn from the sets below; stdout *)
(* is captured per call and "last" keeps the call's header, page and result. *)

CallSlugs == {"akismet", ".hid"}
DiskVersions == {<<1>>, <<1, 0>>, <<1, 1>>, Legacy}
CallDirs == {<<>>} \cup {<<HeaderFile(v)>> : v \in DiskVersions}
CallPages ==
    [ok : BOOLEAN, closed : BOOLEAN,
     meta : {None, Some(<<>>), Some(<< <<1>> >>), Some(<< <<1, 0>> >>),
             Some(<< <<1, 1>> >>), Some(<< <<2>>, <<1>> >>)}]

IdleWalk ==
    /\ fs = [rev |-> FALSE,
             at |-> [i \in Levels |-> [content |-> FALSE, includes |-> FALSE,
                                       versionphp |-> None, plugins |-> None]]]
    /\ stack = <<>>
    /\ visited = {}
    /\ wp_dir = Base(0)
    /\ wp_version = None
    /\ wp_cache = EmptyCache
    /\ checked = {}

InitCalls ==
    /\ IdleWalk
    /\ pc = "calls"
    /\ todo = <<>>
    /\ plugin_cache = EmptyCache
    /\ stdout = <<>>
    /\ gets = NoGets
    /\ calls = 0
    /\ last = NoCall

\* lines 97-127, one call
CallCheckPlugin ==
    /\ pc = "calls"
    /\ calls < MaxCalls
    /\ \E slug \in CallSlugs, files \in CallDirs, page \in CallPages :
        LET c == check_plugin(plugin_cache, wp_dir, slug, files, page) IN
        /\ plugin_cache' = c.cache
        /\ stdout' = c.lines
        /\ gets' = IF c.fetched THEN [gets EXCEPT !.plugin[slug] = @ + 1] ELSE gets
        /\ last' = CallRecord(slug, c, page)
    /\ calls' = calls + 1
    /\ UNCHANGED <<fs, pc, stack, visited, wp_dir, wp_version, todo, wp_cache, checked>>

SpecCalls == InitCalls /\ [][CallCheckPlugin]_vars

----------------------------------------------------------------------------
(* The header scan of check_plugin (lines 102-117), one directory entry per  *)
(* step, over every listing of up to MaxFiles entries; "last" keeps the      *)
(* listing and the two variables plugin_name and plugin_version_str.         *)

ScanFiles ==
    [php : BOOLEAN, names : {<<>>, <<"Foo">>, <<"Bar", "Foo">>},
     versions : {<<>>, << <<1>> >>, << <<2>>, <<1>> >>}]

ScanListings == UNION {[1..n -> ScanFiles] : n \in 0..MaxFiles}

InitScan ==
    /\ IdleWalk
    /\ pc = "scan"
    /\ todo \in ScanListings
    /\ plugin_cache = EmptyCache
    /\ stdout = <<>>
    /\ gets = NoGets
    /\ calls = 0
    /\ last = [files |-> todo, acc |-> NoHeader]

\* lines 105-117, one iteration
ScanFile ==
    /\ pc = "scan"
    /\ todo # <<>>
    /\ last' = [last EXCEPT !.acc = ScanStep(@, Head(todo))]
    /\ todo' = Tail(todo)
    /\ UNCHANGED <<fs, pc, stack, visited, wp_dir, wp_version, wp_cache,
                   plugin_cache, stdout, gets, checked, calls>>

\* line 118: the listing is exhausted
ScanEnd ==
    /\ pc = "scan"
    /\ todo = <<>>
    /\ pc' = "scanned"
    /\ UNCHANGED <<fs, stack, visited, wp_dir, wp_version, todo, wp_cache,
                   plugin_cache, stdout, gets, checked, calls, last>>

NextScan == ScanFile \/ ScanEnd

SpecScan == InitScan /\ [][NextScan]_vars

----------------------------------------------------------------------------
(* Properties of check_wordpress (Spec) *)

\* the lines of the kinds K printed for installation d
Printed(d, K) == SelectSeq(stdout, LAMBDA l : l.dir = d /\ l.kind \in K)
Count(d, kind) == Len(Printed(d, {kind}))

\* the directory holds both wp-content and wp-includes
HasBoth(d) == {"wp-content", "wp-includes"} \subseteq Entries(d)

\* the directories reached so far that hold both
Installations == {d \in visited : HasBoth(d)}

\* version.php of installation d holds a $wp_version assignment
VersionOnDisk(d) == fs.at[Level(d)].versionphp \notin {None, Some(<<>>)}

\* the loop body of check_wordpress has run to its end for installation d
Finished(d) ==
    /\ d \in visited
    /\ HasBoth(d)
    /\ (d = wp_dir => pc \in {"walk", "done"})

\* C7: every directory the walk has reached that holds both wp-content and
\* wp-includes has its header printed exactly once, no other directory has one,
\* and when the walk ends it has reached every directory of the tree (nested
\* installations included: nothing is pruned).
C7_EveryInstallationReportedOnce ==
    /\ \A d \in visited : Count(d, "header") = IF HasBoth(d) THEN 1 ELSE 0
    /\ \A k \in DOMAIN stdout : stdout[k].dir \in visited
    /\ (pc = "done" => visited = AllDirs)

\* C7 witness: the walk is over and an installation nested in another one has
\* been reported along with the outer one
C7_NestedReported ==
    /\ pc = "done"
    /\ HasBoth(Base(0))
    /\ HasBoth(Base(1))
    /\ Count(Base(0), "header") = 1
    /\ Count(Base(1), "header") = 1

\* C3 as stated: when the walk is over, every installation whose
\* wp-content/plugins exists has had its plugins scanned, version found or not.
C3_PluginsScannedWheneverDirExists ==
    pc = "done" =>
        \A d \in AllDirs :
            HasBoth(d) /\ Exists(PluginsDir(d)) => Count(d, "plugins") = 1

\* C3 amended: an installation's plugins are scanned exactly when its
\* wp-content/plugins exists and its core version was extracted; with the
\* version not found the installation is left without a plugin scan.
C3_PluginsScannedOnlyWithVersion ==
    \A d \in visited :
        Finished(d) =>
            Count(d, "plugins") =
                IF Exists(PluginsDir(d)) /\ VersionOnDisk(d) THEN 1 ELSE 0

\* C3 witness: the outer installation has a plugins directory and no version and
\* was left unscanned, the nested one has both and was scanned
C3_UnscannedWithoutVersion ==
    /\ pc = "done"
    /\ HasBoth(Base(0)) /\ Exists(PluginsDir(Base(0))) /\ ~VersionOnDisk(Base(0))
    /\ Count(Base(0), "skipping") = 1
    /\ Count(Base(0), "plugins") = 0
    /\ HasBoth(Base(1)) /\ Exists(PluginsDir(Base(1))) /\ VersionOnDisk(Base(1))
    /\ Count(Base(1), "plugins") = 1

CoreKinds(d) ==
    LET ls == Printed(d, {"outofdate", "outdated"}) IN [k \in DOMAIN ls |-> ls[k].kind]

\* C4 as stated: right after the core check of an installation with version v,
\* OUT-OF-DATE is printed if v is no key of the mapping, else "probably
\* outdated" if the release date lies more than 180 days back, else nothing.
C4_OutdatedAfterMoreThan180Days ==
    pc = "plugins" =>
        CoreKinds(wp_dir) =
            IF Val(wp_version) \notin DOMAIN wp_cache THEN <<"outofdate">>
            ELSE IF wp_cache[Val(wp_version)] > OutdatedDays * 24 THEN <<"outdated">>
            ELSE <<>>

\* C4 amended: the same, with "probably outdated" printed when the number of
\* whole days since the release date exceeds 180, that is from 181 days on; no
\* installation ever gets both messages.
C4_OutdatedFrom181Days ==
    /\ \A d \in visited : Len(CoreKinds(d)) <= 1
    /\ pc = "plugins" =>
        CoreKinds(wp_dir) =
            IF Val(wp_version) \notin DOMAIN wp_cache THEN <<"outofdate">>
            ELSE IF wp_cache[Val(wp_version)] >= (OutdatedDays + 1) * 24
            THEN <<"outdated">>
            ELSE <<>>

\* C4 witness: the version is the newest of its branch, released 180 days and
\* 12 hours ago, and no core line was printed
C4_HalfDayPast180 ==
    /\ pc = "plugins"
    /\ Val(wp_version) \in DOMAIN wp_cache
    /\ wp_cache[Val(wp_version)] = OutdatedDays * 24 + 12
    /\ CoreKinds(wp_dir) = <<>>

\* C2 as stated: the releases page is fetched at most once in a run.
C2_ReleasesFetchedAtMostOnce == gets.releases <= 1

\* C2 amended: a call of get_wp_branch_last_version_release_date fetches the
\* releases page exactly when the mapping is empty at the call; once the mapping
\* holds an entry it is never fetched again and never changes.
C2_ReleasesFetchedWhileEmpty ==
    [][/\ gets'.releases =
            gets.releases
            + (IF pc = "core" /\ pc' # "core" /\ DOMAIN wp_cache = {} THEN 1 ELSE 0)
       /\ (DOMAIN wp_cache # {} => wp_cache' = wp_cache)]_vars

\* C2 witness: the second installation's version was looked up and the page was
\* fetched once
C2_SecondCallFromCache ==
    /\ pc = "plugins"
    /\ wp_dir = Base(1)
    /\ Count(Base(0), "version") = 1
    /\ gets.releases = 1

HiddenNames == {".hid"}

\* C8 as stated: check_plugin is called only on entries of the plugins
\* directory that are directories with a name not starting with a dot.
C8_OnlyNonHiddenDirectories ==
    \A p \in checked : IsDir(p) /\ Last(p) \notin HiddenNames

\* C8 amended: check_plugin is called on exactly the entries of the plugins
\* directory that are directories, hidden ones included; entries that are not
\* directories are skipped.
C8_ExactlyTheDirectories ==
    /\ \A p \in checked :
        \E d \in Installations : \E k \in DOMAIN Listing(d) :
            /\ p = Join(PluginsDir(d), Listing(d)[k].name)
            /\ Listing(d)[k].isdir
    /\ \A d \in Installations :
        Finished(d) /\ Count(d, "plugins") = 1 =>
            \A k \in DOMAIN Listing(d) :
                Listing(d)[k].isdir => Join(PluginsDir(d), Listing(d)[k].name) \in checked

\* C8 witness: a hidden directory was checked and the file beside it was not
C8_HiddenChecked ==
    /\ Finished(Base(0))
    /\ Join(PluginsDir(Base(0)), ".hid") \in checked
    /\ Join(PluginsDir(Base(0)), "index.php") \notin checked
    /\ Exists(Join(PluginsDir(Base(0)), "index.php"))

\* C10: a releases page with a table without a row, or with a first row of
\* fewer than two cells, never ends the scan with an exception.
C10_MalformedPageNeverAborts == pc \notin {"AttributeError", "IndexError"}

----------------------------------------------------------------------------
(* Properties of check_plugin and the plugin oracle (SpecCalls) *)

HeaderFound == ~IsNone(last.header.name) /\ ~IsNone(last.header.version)

ClosedLine == Line(wp_dir, "closed", last.slug, <<>>, <<>>)

\* the oracle knows a version strictly greater than the one on disk
NewerKnown ==
    /\ ~IsNone(last.result.version)
    /\ VersionLess(ParseVersion(Val(last.header.version)), Val(last.result.version))

\* C5: a check_plugin call for a plugin with a name and a version prints at
\* most one line: CLOSED if the oracle reports closed, whatever the versions;
\* else the update line if a strictly greater version is known; else nothing
\* (so nothing for an unknown result or a version equal or lower).
C5_ClosedThenUpdateThenNothing ==
    calls > 0 /\ HeaderFound =>
        /\ Len(stdout) <= 1
        /\ stdout =
            IF last.result.closed = Some(TRUE) THEN <<ClosedLine>>
            ELSE IF NewerKnown
            THEN <<Line(wp_dir, "update", last.slug,
                        ParseVersion(Val(last.header.version)),
                        Val(last.result.version))>>
            ELSE <<>>
        /\ (last.result = NoResult => stdout = <<>>)

\* C5 witness: the plugin is closed and a newer version is known; CLOSED alone
\* is printed
C5_ClosedWithNewerVersion ==
    /\ calls > 0
    /\ HeaderFound
    /\ last.result.closed = Some(TRUE)
    /\ NewerKnown
    /\ stdout = <<ClosedLine>>

\* C6: whenever the plugin page is fetched with success and its body holds the
\* closed notice, the plugin (with a name and a version on disk) is reported
\* CLOSED, also when the page has no entry-meta region or no version in it.
C6_ClosedNoticeAlwaysReported ==
    (/\ calls > 0
     /\ HeaderFound
     /\ ~IsNone(last.page)
     /\ Val(last.page).ok
     /\ Val(last.page).closed) => stdout = <<ClosedLine>>

\* a fetched page from which a version was read
Succeeded(page) ==
    ~IsNone(page) /\ Val(page).ok /\ ~IsNone(Val(page).meta) /\ Val(Val(page).meta) # <<>>

\* C1: in every step that looks a slug up: a slug with a cache entry is answered
\* with that entry and without a GET; a slug without one costs one GET, and the
\* lookup leaves an entry (the pair it returns) exactly when the page was
\* fetched with success and a version was read from it, so that a lookup ending
\* in (None, None) leaves the slug to be fetched again. Entries never change.
C1_SuccessCachedUnknownRefetched ==
    [][/\ \A s \in DOMAIN plugin_cache :
            s \in DOMAIN plugin_cache' /\ plugin_cache'[s] = plugin_cache[s]
       /\ last'.looked =>
            IF last'.slug \in DOMAIN plugin_cache
            THEN /\ gets' = gets
                 /\ IsNone(last'.page)
                 /\ last'.result = plugin_cache[last'.slug]
                 /\ plugin_cache' = plugin_cache
            ELSE /\ gets'.plugin[last'.slug] = gets.plugin[last'.slug] + 1
                 /\ ~IsNone(last'.page)
                 /\ IF Succeeded(last'.page)
                    THEN /\ last'.slug \in DOMAIN plugin_cache'
                         /\ plugin_cache'[last'.slug] = last'.result
                         /\ ~IsNone(last'.result.version)
                    ELSE /\ last'.result = NoResult
                         /\ plugin_cache' = plugin_cache]_vars

\* C1 witness: three lookups of one slug: unknown, then found (a second GET),
\* then answered from the cache
C1_UnknownThenFoundThenCached ==
    /\ calls = 3
    /\ last.slug = "akismet"
    /\ last.looked
    /\ IsNone(last.page)
    /\ "akismet" \in DOMAIN plugin_cache
    /\ gets.plugin["akismet"] = 2

----------------------------------------------------------------------------
(* Properties of the header scan (SpecScan) *)

\* the entries scanned so far
Scanned == SubSeq(last.files, 1, Len(last.files) - Len(todo))

HasVersion(f) == f.php /\ f.versions # <<>>
HasName(f) == f.php /\ f.names # <<>>
HasHeader(f) == HasName(f) /\ HasVersion(f)

\* the greatest index of the set K
Greatest(K) == CHOOSE i \in K : \A j \in K : j <= i

\* the first 'Version:' match of the last entry of q that holds one
LastVersionMatch(q) ==
    LET K == {k \in DOMAIN q : HasVersion(q[k])} IN
    IF K = {} THEN None ELSE Some(q[Greatest(K)].versions[1])

\* the first 'Version:' match of the last entry of q that holds a full header
LastHeaderVersion(q) ==
    LET K == {k \in DOMAIN q : HasHeader(q[k])} IN
    IF K = {} THEN None ELSE Some(q[Greatest(K)].versions[1])

\* the first 'Plugin Name:' match of the last entry of q that holds one
LastName(q) ==
    LET K == {k \in DOMAIN q : HasName(q[k])} IN
    IF K = {} THEN None ELSE Some(q[Greatest(K)].names[1])

\* C9 as stated: when the scan is over and has found a name and a version, the
\* version is the first 'Version:' match of the last scanned .php file holding
\* such a match.
C9_LastVersionMatchWins ==
    pc = "scanned" /\ ~IsNone(last.acc.name) /\ ~IsNone(last.acc.version) =>
        last.acc.version = LastVersionMatch(last.files)

\* C9 amended: every entry is scanned, and at each point the version is the
\* first 'Version:' match of the last scanned .php file that holds both a
\* 'Plugin Name:' and a 'Version:' match (a later file with a version and no
\* plugin name changes nothing); the name is the first 'Plugin Name:' match of
\* the last scanned .php file holding one.
C9_LastHeaderFileWins ==
    /\ last.acc.version = LastHeaderVersion(Scanned)
    /\ last.acc.name = LastName(Scanned)
    /\ (pc = "scanned" => Scanned = last.files)

\* C9 witness: two files with a full header; the second one's first version
\* match is the result
C9_SecondFileOverrides ==
    /\ pc = "scanned"
    /\ Len(last.files) = 2
    /\ HasHeader(last.files[1]) /\ last.files[1].versions[1] = <<1>>
    /\ HasHeader(last.files[2]) /\ last.files[2].versions = << <<2>>, <<1>> >>
    /\ last.acc.version = Some(<<2>>)

====
